---- MODULE Spec2Model ----
(***************************************************************************)
(* Model of the spatial hashing acceleration structure of big_space        *)
(* (src/src/spatial_hash.rs): the SpatialHash digest, the SpatialHashMap   *)
(* resource with its forward map and reverse map, the update pass that     *)
(* feeds it, and the neighbor queries neighbors, neighbors_flattened and   *)
(* neighbors_flood.                                                        *)
(***************************************************************************)
EXTENDS Integers, Sequences, FiniteSets, TLC

(***************************************************************************)
(* Bounds of the model.                                                    *)
(***************************************************************************)
NumEntities == 2
MaxReports == 3
MaxStack == 4
CoordSpan == 512

\* The largest cell_radius: u8 a query can be given.
U8Max == 255

Entities == 1..NumEntities
\* The frame identities (the bits of the Parent entity).
Frames == {1, 2}

\* The grid cells the host places entities in.
Cells == {<<0, 0, 0>>, <<1, 1, 1>>}

\* The entities that match the query filter F of the plugin instantiated with
\* a filter (say, the Player entities).
Matching == {1}

\* The cells queries are centred on: a cell entities are placed in, a cell
\* whose radius-1 cube holds both cells of Cells, and a cell at Chebyshev
\* distance 2 from <<0,0,0>>.
QueryCells == {<<0, 0, 0>>, <<0, 1, 1>>, <<-2, 1, -2>>}

\* The radii queries are made with: the cell alone, and its 3 x 3 x 3 cube.
Radii == {0, 1}

\* The cells the host completes a PartialSpatialHash with.
HashedCells == Cells \cup QueryCells

\* Option: None and Some(x)
None == <<>>
Some(x) == <<x>>

VARIABLES
    map,          \* SpatialHashMap<P>.map: digest -> set of entities
    reverse_map,  \* SpatialHashMap<P>.reverse_map: entity -> digest
    filtered,     \* the resource SpatialHashMap<P, F> of the plugin with filter F
    parent,       \* the Parent component of every entity (None: not spawned)
    gridcell,     \* the GridCell component of every entity
    spatial_hash, \* the SpatialHash component of every entity
    despawned,    \* the entities the host has despawned (their components
                  \* above keep the last values they had)
    reports,      \* how many (entity, frame, cell) tuples the host has reported
    collide,      \* the pair of hasher inputs the hasher maps to one digest, or <<>>
    call,         \* the query holding a shared borrow of the index, or idle
    out,          \* what the finished query returned
    stack,        \* neighbors_flood: the work stack
    result,       \* neighbors_flood: the result map under construction
    expanded      \* neighbors_flood: the cells popped so far, in order

vars == <<map, reverse_map, filtered, parent, gridcell, spatial_hash, despawned,
          reports, collide,
          call, out, stack, result, expanded>>

(***************************************************************************)
(* Helpers.                                                                *)
(***************************************************************************)
\* All orders in which the elements of a finite set can be visited.
Orders(S) == {s \in [1..Cardinality(S) -> S] : \A i, j \in 1..Cardinality(S) : s[i] = s[j] => i = j}

Pow3(n) == n * n * n

(***************************************************************************)
(* The hash function.  The hasher state is the sequence of values written  *)
(* to it; finish maps it to a digest.  Apart from the one pair of inputs   *)
(* named by collide, distinct inputs get distinct digests.                 *)
(***************************************************************************)
Mix(state) == ((state[1] * CoordSpan + (state[2] + CoordSpan \div 2)) * CoordSpan
                 + (state[3] + CoordSpan \div 2)) * CoordSpan + (state[4] + CoordSpan \div 2)

finish(state) == IF collide # <<>> /\ state = collide[2] THEN Mix(collide[1]) ELSE Mix(state)

\* PartialSpatialHash::new: a hasher that has been fed the parent's bits.
PartialSpatialHash_new(par) == <<par>>

\* PartialSpatialHash::generate: a clone of the hasher is fed the cell.
generate(hasher, cell) == finish(hasher \o cell)

\* SpatialHash::new
SpatialHash_new(par, cell) == generate(PartialSpatialHash_new(par), cell)

\* A generate that feeds the cell to the hasher of the partial hash itself,
\* not to a clone: the state it leaves in self.hasher.
generate_self_no_clone(hasher, cell) == hasher \o cell

\* The state PartialSpatialHash::generate(&self, cell) leaves in self.hasher:
\* the cell is fed to hasher_clone, self.hasher is not written.
generate_self(hasher, cell) == hasher

(***************************************************************************)
(* The spatial index.                                                      *)
(***************************************************************************)
\* An insert that takes the entity out of the bucket when it finds it there.
insert_toggle(idx, entity, hash) ==
    [map |-> IF hash \in DOMAIN idx.map
             THEN [idx.map EXCEPT ![hash] = IF entity \in @ THEN @ \ {entity} ELSE @ \cup {entity}]
             ELSE idx.map @@ (hash :> {entity}),
     reverse_map |-> idx.reverse_map]

\* An insert that overwrites the bucket instead of adding to it.
insert_replace(idx, entity, hash) ==
    [map |-> IF hash \in DOMAIN idx.map
             THEN [idx.map EXCEPT ![hash] = {entity}]
             ELSE idx.map @@ (hash :> {entity}),
     reverse_map |-> idx.reverse_map]

\* SpatialHashMap::insert on the index idx = [map, reverse_map].
insert(idx, entity, hash) ==
    LET had == entity \in DOMAIN idx.reverse_map
        old_hash == idx.reverse_map[entity]
    IN  IF had /\ hash = old_hash
        THEN idx
        ELSE LET m1 == IF had /\ old_hash \in DOMAIN idx.map
                       THEN [idx.map EXCEPT ![old_hash] = @ \ {entity}]
                       ELSE idx.map
                 r1 == IF had
                       THEN [idx.reverse_map EXCEPT ![entity] = hash]
                       ELSE idx.reverse_map
                 m2 == IF hash \in DOMAIN m1
                       THEN [m1 EXCEPT ![hash] = @ \cup {entity}]
                       ELSE m1 @@ (hash :> {entity})
             IN  [map |-> m2, reverse_map |-> r1]

\* SpatialHashMap::get
get(m, hash) == IF hash \in DOMAIN m THEN Some(m[hash]) ELSE None

\* SpatialHashMap::iter
iter(m) == {<<h, m[h]>> : h \in DOMAIN m}

\* An update pass that queues the write of the SpatialHash component and
\* leaves the entity out of the index.
RECURSIVE update_spatial_hash_no_insert(_, _)
update_spatial_hash_no_insert(st, changed_entities) ==
    IF changed_entities = <<>>
    THEN st
    ELSE LET entity == Head(changed_entities)[1]
             spatial_hash_new == SpatialHash_new(Head(changed_entities)[2], Head(changed_entities)[3])
         IN  IF Head(changed_entities)[4] # Some(spatial_hash_new)
             THEN update_spatial_hash_no_insert(
                      [idx |-> st.idx,
                       commands |-> (entity :> spatial_hash_new) @@ st.commands],
                      Tail(changed_entities))
             ELSE update_spatial_hash_no_insert(st, Tail(changed_entities))

\* The loop of SpatialHashMap::update_spatial_hash over the changed entities,
\* each given as <<entity, parent, cell, old_hash>>.  st = [idx, commands]:
\* the index, and the deferred writes of the SpatialHash component.
RECURSIVE update_spatial_hash(_, _)
update_spatial_hash(st, changed_entities) ==
    IF changed_entities = <<>>
    THEN st
    ELSE LET entity == Head(changed_entities)[1]
             par == Head(changed_entities)[2]
             cell == Head(changed_entities)[3]
             old_hash == Head(changed_entities)[4]
             spatial_hash_new == SpatialHash_new(par, cell)
         IN  IF old_hash # Some(spatial_hash_new)
             THEN update_spatial_hash(
                      [idx |-> insert(st.idx, entity, spatial_hash_new),
                       commands |-> (entity :> spatial_hash_new) @@ st.commands],
                      Tail(changed_entities))
             ELSE update_spatial_hash(st, Tail(changed_entities))

(***************************************************************************)
(* The neighbor queries.                                                   *)
(***************************************************************************)
\* GridCell + IVec3
CellAdd(cell, offset) == <<cell[1] + offset[1], cell[2] + offset[2], cell[3] + offset[3]>>

\* An offset computed from a 1-based index.
neighbor_offset_from_one(radius, i) ==
    LET search_width == 1 + 2 * radius
        center == -radius
        x == center + (i + 1)
        y == center + ((i + 1) % search_width)
        z == center + ((i + 1) % (search_width * search_width))
    IN  <<x, y, z>>

\* An offset whose center is one cell too low.
neighbor_offset_low_center(radius, i) ==
    LET search_width == 1 + 2 * radius
        center == -radius - 1
        x == center + i
        y == center + (i % search_width)
        z == center + (i % (search_width * search_width))
    IN  <<x, y, z>>

\* The offset neighbors computes for the index i of its scan.
neighbor_offset(radius, i) ==
    LET search_width == 1 + 2 * radius
        center == -radius
        x == center + i
        y == center + (i % search_width)
        z == center + (i % (search_width * search_width))
    IN  <<x, y, z>>

\* SpatialHashMap::neighbors: the sequence of <<hash, cell, set>> it yields.
neighbors(m, cell_radius, par, cell) ==
    LET radius == cell_radius
        search_width == 1 + 2 * radius
        search_volume == Pow3(search_width)
        hash == PartialSpatialHash_new(par)
        scan == [k \in 1..search_volume |->
                    LET neighbor_cell == CellAdd(cell, neighbor_offset(radius, k - 1))
                        neighbor_hash == generate(hash, neighbor_cell)
                    IN  <<neighbor_hash, neighbor_cell, get(m, neighbor_hash)>>]
    IN  LET found == SelectSeq(scan, LAMBDA it : it[3] # None /\ it[3][1] # {})
        IN  [k \in 1..Len(found) |-> <<found[k][1], found[k][2], found[k][3][1]>>]

\* SpatialHashMap::neighbors_flattened: the sequences it can yield, one for
\* every order in which the sets can be iterated.
RECURSIVE flat_map(_)
flat_map(items) ==
    IF items = <<>>
    THEN {<<>>}
    ELSE {a \o b : a \in Orders(Head(items)[3]), b \in flat_map(Tail(items))}

neighbors_flattened(m, cell_radius, par, cell) == flat_map(neighbors(m, cell_radius, par, cell))

\* A flood closure that does not record the digest of a cell it pushes.
flood_visit_forget(st, item) ==
    IF item[1] \notin DOMAIN st.result
    THEN [stack |-> Append(st.stack, item[2]),
          result |-> st.result]
    ELSE [stack |-> st.stack,
          result |-> [st.result EXCEPT ![item[1]] = item[3]]]

\* A flood closure without the visited-set discipline: it pushes the cell of
\* every item, whether or not its digest was already in the result.
flood_visit_always_push(st, item) ==
    [stack |-> Append(st.stack, item[2]),
     result |-> IF item[1] \in DOMAIN st.result
                THEN [st.result EXCEPT ![item[1]] = item[3]]
                ELSE st.result @@ (item[1] :> item[3])]

\* The closure neighbors_flood runs on every item neighbors yields;
\* st = [stack, result].
flood_visit(st, item) ==
    IF item[1] \notin DOMAIN st.result
    THEN [stack |-> Append(st.stack, item[2]),
          result |-> st.result @@ (item[1] :> item[3])]
    ELSE [stack |-> st.stack,
          result |-> [st.result EXCEPT ![item[1]] = item[3]]]

RECURSIVE for_each(_, _)
for_each(st, items) ==
    IF items = <<>> THEN st ELSE for_each(flood_visit(st, Head(items)), Tail(items))

\* One iteration of the while loop of neighbors_flood: pop a cell, scan its
\* neighbors.
flood_iteration(m, cell_radius, par, stk, res) ==
    LET cell == stk[Len(stk)]
        popped == SubSeq(stk, 1, Len(stk) - 1)
    IN  for_each([stack |-> popped, result |-> res], neighbors(m, cell_radius, par, cell))

(***************************************************************************)
(* The state machine.                                                      *)
(***************************************************************************)
Idle == [op |-> "idle"]

\* What the three queries return, before any of them has returned.
NoOutput == [neighbors |-> <<>>, flattened |-> <<>>, flood |-> <<>>]

\* The pairs of hasher inputs that may share a digest: none, two cells of one
\* frame, or one cell in two frames.
Collisions == {<<>>,
               << <<1, 0, 0, 0>>, <<1, 1, 1, 1>> >>,
               << <<1, 0, 0, 0>>, <<2, 0, 0, 0>> >>}

\* SpatialHashMap::default
SpatialHashMap_default == [map |-> <<>>, reverse_map |-> <<>>]

Init ==
    /\ map = SpatialHashMap_default.map
    /\ reverse_map = SpatialHashMap_default.reverse_map
    /\ filtered = SpatialHashMap_default
    /\ parent = [e \in Entities |-> None]
    /\ gridcell = [e \in Entities |-> None]
    /\ spatial_hash = [e \in Entities |-> None]
    /\ despawned = {}
    /\ reports = 0
    /\ collide \in Collisions
    /\ call = Idle
    /\ out = NoOutput
    /\ stack = <<>>
    /\ result = <<>>
    /\ expanded = <<>>

query_vars == <<call, out, stack, result, expanded>>
index_vars == <<map, reverse_map, filtered>>
world_vars == <<parent, gridcell, spatial_hash, despawned, reports>>

\* The host changes the Parent or GridCell of the entities of `changed`, which
\* are among `matched`, the live entities the query filter of the plugin lets
\* through, and the update pass of that plugin runs over them in the order
\* `order`.  Whatever the filter, the pass is handed the resource
\* SpatialHashMap<P> (ResMut<SpatialHashMap<P>>), that is map and reverse_map;
\* the deferred writes of the SpatialHash component are applied when the pass
\* ends.
RunPass(matched) ==
    /\ call = Idle
    /\ \E changed \in (SUBSET matched) \ {{}} :
       \E new_parent \in [changed -> Frames], new_cell \in [changed -> Cells] :
       \E order \in Orders(changed) :
          LET items == [k \in 1..Len(order) |->
                           <<order[k], new_parent[order[k]], new_cell[order[k]],
                             spatial_hash[order[k]]>>]
              done == update_spatial_hash(
                          [idx |-> [map |-> map, reverse_map |-> reverse_map],
                           commands |-> <<>>], items)
          IN  /\ reports + Cardinality(changed) <= MaxReports
              /\ reports' = reports + Cardinality(changed)
              /\ parent' = [e \in Entities |-> IF e \in changed THEN Some(new_parent[e]) ELSE parent[e]]
              /\ gridcell' = [e \in Entities |-> IF e \in changed THEN Some(new_cell[e]) ELSE gridcell[e]]
              /\ map' = done.idx.map
              /\ reverse_map' = done.idx.reverse_map
              /\ spatial_hash' = [e \in Entities |->
                                    IF e \in DOMAIN done.commands
                                    THEN Some(done.commands[e]) ELSE spatial_hash[e]]
    /\ UNCHANGED <<filtered, despawned, collide, query_vars>>

\* The update pass of the plugin with the default filter ().
UpdatePass == RunPass(Entities \ despawned)

\* The update pass of the plugin instantiated with the filter F.
FilteredUpdatePass == RunPass(Matching \ despawned)

\* The host despawns a spawned entity.  No code of the index runs.
Despawn ==
    /\ call = Idle
    /\ reports < MaxReports
    /\ \E e \in Entities \ despawned :
          /\ parent[e] # None
          /\ despawned' = despawned \cup {e}
    /\ reports' = reports + 1
    /\ UNCHANGED <<index_vars, parent, gridcell, spatial_hash, collide, query_vars>>

Neighbors ==
    /\ call = Idle
    /\ \E r \in Radii, f \in Frames, c \in QueryCells :
          /\ call' = [op |-> "neighbors", cell_radius |-> r, parent |-> f, cell |-> c]
          /\ out' = [NoOutput EXCEPT !.neighbors = neighbors(map, r, f, c)]
    /\ UNCHANGED <<index_vars, world_vars, collide, stack, result, expanded>>

NeighborsFlattened ==
    /\ call = Idle
    /\ \E r \in Radii, f \in Frames, c \in QueryCells :
          /\ call' = [op |-> "neighbors_flattened", cell_radius |-> r, parent |-> f, cell |-> c]
          /\ \E flat \in neighbors_flattened(map, r, f, c) :
                out' = [NoOutput EXCEPT !.flattened = flat]
    /\ UNCHANGED <<index_vars, world_vars, collide, stack, result, expanded>>

FloodStart ==
    /\ call = Idle
    /\ \E r \in Radii, f \in Frames, c \in QueryCells :
          /\ call' = [op |-> "neighbors_flood", cell_radius |-> r, parent |-> f, cell |-> c]
          /\ stack' = <<c>>
    /\ result' = <<>>
    /\ expanded' = <<>>
    /\ UNCHANGED <<index_vars, world_vars, collide, out>>

FloodStep ==
    /\ call.op = "neighbors_flood"
    /\ stack # <<>>
    /\ Len(stack) <= MaxStack
    /\ LET st == flood_iteration(map, call.cell_radius, call.parent, stack, result)
       IN  /\ stack' = st.stack
           /\ result' = st.result
    /\ expanded' = Append(expanded, stack[Len(stack)])
    /\ UNCHANGED <<index_vars, world_vars, collide, call, out>>

FloodReturn ==
    /\ call.op = "neighbors_flood"
    /\ stack = <<>>
    /\ call' = [call EXCEPT !.op = "flood_done"]
    /\ out' = [NoOutput EXCEPT !.flood = result]
    /\ UNCHANGED <<index_vars, world_vars, collide, stack, result, expanded>>

\* The host builds a PartialSpatialHash from a frame.
PartialNew ==
    /\ call = Idle
    /\ \E f \in Frames :
          call' = [op |-> "partial", parent |-> f, hasher |-> PartialSpatialHash_new(f),
                   cell |-> None, hash |-> None, reused |-> FALSE]
    /\ UNCHANGED <<index_vars, world_vars, collide, out, stack, result, expanded>>

\* The host completes the PartialSpatialHash it holds with a cell; reused
\* tells whether the same partial hash had been completed before.
PartialGenerate ==
    /\ call.op = "partial"
    /\ \E c \in HashedCells :
          call' = [call EXCEPT !.hasher = generate_self(call.hasher, c),
                               !.cell = Some(c),
                               !.hash = Some(generate(call.hasher, c)),
                               !.reused = (call.cell # None)]
    /\ UNCHANGED <<index_vars, world_vars, collide, out, stack, result, expanded>>

\* The host drops the PartialSpatialHash.
PartialDrop ==
    /\ call.op = "partial"
    /\ call' = Idle
    /\ UNCHANGED <<index_vars, world_vars, collide, out, stack, result, expanded>>

\* The caller drops what the query returned; the borrow of the index ends.
Drop ==
    /\ call.op \in {"neighbors", "neighbors_flattened", "flood_done"}
    /\ call' = Idle
    /\ out' = NoOutput
    /\ stack' = <<>>
    /\ result' = <<>>
    /\ expanded' = <<>>
    /\ UNCHANGED <<index_vars, world_vars, collide>>

Next ==
    \/ UpdatePass
    \/ FilteredUpdatePass
    \/ Despawn
    \/ Neighbors
    \/ NeighborsFlattened
    \/ FloodStart
    \/ FloodStep
    \/ FloodReturn
    \/ PartialNew
    \/ PartialGenerate
    \/ PartialDrop
    \/ Drop

Spec == Init /\ [][Next]_vars

(***************************************************************************)
(* Vocabulary of the properties.                                           *)
(***************************************************************************)
\* The hasher maps distinct (frame, cell) pairs to distinct digests.
CollisionFree == collide = <<>>

\* get(hash(f, c)), with None read as the empty set.
Bucket(f, c) ==
    LET g == get(map, SpatialHash_new(f, c)) IN IF g = None THEN {} ELSE g[1]

\* The entities whose most recently reported (frame, cell) is (f, c).
Occupants(f, c) == {e \in Entities : parent[e] = Some(f) /\ gridcell[e] = Some(c)}

\* The members of the bucket of digest h, with an absent bucket read as empty.
Members(m, h) == IF h \in DOMAIN m THEN m[h] ELSE {}

Abs(n) == IF n < 0 THEN -n ELSE n

Max2(a, b) == IF a < b THEN b ELSE a

\* Chebyshev distance of two cells.
Chebyshev(a, b) == Max2(Abs(a[1] - b[1]), Max2(Abs(a[2] - b[2]), Abs(a[3] - b[3])))

\* The cube of Chebyshev radius r centred on c.
Cube(c, r) == {CellAdd(c, <<dx, dy, dz>>) : dx \in -r..r, dy \in -r..r, dz \in -r..r}

\* The cells of frame f whose bucket is non-empty.
NonEmptyCells(f) == {c \in Cells : Bucket(f, c) # {}}

\* The cells of `occupied` joined to the cells of S by chains of steps of
\* Chebyshev distance at most r, together with S.
RECURSIVE Chained(_, _, _)
Chained(S, occupied, r) ==
    LET more == S \cup {x \in occupied : \E y \in S : Chebyshev(x, y) <= r}
    IN  IF more = S THEN S ELSE Chained(more, occupied, r)

\* The non-empty cells of frame f reachable from origin.
Reachable(r, f, origin) == Chained({origin}, NonEmptyCells(f), r) \cap NonEmptyCells(f)

\* The entities a flood result holds.
FloodEntities(res) == UNION {res[h] : h \in DOMAIN res}

\* The digests of the (frame, cell) pairs entities are reported at.
AllDigests == {SpatialHash_new(f, c) : f \in Frames, c \in Cells}

\* The index as the program holds it.
Index == [map |-> map, reverse_map |-> reverse_map]

\* The index states the algebraic laws of insert are checked on: the index as
\* the program holds it, and the same forward map with a reverse entry for
\* every entity that carries a SpatialHash component (the entry being that
\* component), so that the branches of insert that read the reverse map are
\* exercised as well.
IndexStates ==
    {Index,
     [map |-> map,
      reverse_map |-> [e \in {x \in Entities : spatial_hash[x] # None} |-> spatial_hash[e][1]]]}

(***************************************************************************)
(* Properties.                                                             *)
(***************************************************************************)
\* C1: with a collision-free hash, after any sequence of update passes the
\* bucket get(hash(F, c)) is exactly the set of entities whose most recently
\* reported (frame, cell) is (F, c), for every frame F and cell c.
C1_GetIsOccupants ==
    CollisionFree => \A f \in Frames, c \in Cells : Bucket(f, c) = Occupants(f, c)

\* C2: a pass that upserts exactly one entity e, from its digest d1 to a
\* different digest d2, takes e out of get(d1) and makes get(d2) its previous
\* members plus e.
C2_MoveCorrectness ==
    [][\A e \in Entities :
          (/\ spatial_hash[e] # None
           /\ spatial_hash'[e] # spatial_hash[e]
           /\ \A x \in Entities \ {e} : spatial_hash'[x] = spatial_hash[x])
          => LET d1 == spatial_hash[e][1]
                 d2 == spatial_hash'[e][1]
             IN  /\ e \notin Members(map', d1)
                 /\ Members(map', d2) = Members(map, d2) \cup {e}]_vars

\* C3: no entity is a member of the entity-set of more than one digest of
\* the forward map.
C3_OneBucketPerEntity ==
    \A e \in Entities : Cardinality({h \in DOMAIN map : e \in map[h]}) <= 1

\* C4: the forward and the reverse map are inverses: an entity e is a member
\* of forward[h] if and only if reverse[e] = h.
C4_MapsAreInverses ==
    \A e \in Entities : \A h \in DOMAIN map :
        (e \in map[h]) <=> (e \in DOMAIN reverse_map /\ reverse_map[e] = h)

\* C5: with a collision-free hash, two entities whose current cells are equal
\* and whose current frames differ are never in one bucket, get for a frame
\* yields only entities currently in that frame, and so does neighbors.
C5_FrameIsolation ==
    CollisionFree =>
        /\ \A e1, e2 \in Entities :
              (/\ parent[e1] # None /\ parent[e2] # None
               /\ gridcell[e1] = gridcell[e2]
               /\ parent[e1] # parent[e2])
              => ~ \E h \in DOMAIN map : {e1, e2} \subseteq map[h]
        /\ \A f \in Frames, c \in Cells : \A e \in Bucket(f, c) : parent[e] = Some(f)
        /\ call.op = "neighbors"
              => \A k \in 1..Len(out.neighbors) :
                    \A e \in out.neighbors[k][3] : parent[e] = Some(call.parent)

\* C6: with a collision-free hash, neighbors(r, F, c) yields exactly the
\* non-empty cells of the cube of Chebyshev radius r centred on c.
C6_NeighborsIsCube ==
    (CollisionFree /\ call.op = "neighbors")
        => {out.neighbors[k][2] : k \in 1..Len(out.neighbors)}
             = {c \in Cube(call.cell, call.cell_radius) : Bucket(call.parent, c) # {}}

\* C7: with a collision-free hash, the digest and the entities of every
\* non-empty cell reachable from the origin by a chain of non-empty cells,
\* each step within Chebyshev distance r, are in the result of neighbors_flood.
C7_FloodTransitive ==
    (CollisionFree /\ call.op = "flood_done")
        => \A X \in Reachable(call.cell_radius, call.parent, call.cell) :
              /\ SpatialHash_new(call.parent, X) \in DOMAIN out.flood
              /\ out.flood[SpatialHash_new(call.parent, X)] = Bucket(call.parent, X)

\* C8: with a collision-free hash, no entity of a non-empty cell that is not
\* reachable from the origin is in the result of neighbors_flood.
C8_FloodSound ==
    (CollisionFree /\ call.op = "flood_done")
        => \A X \in NonEmptyCells(call.parent)
                      \ Reachable(call.cell_radius, call.parent, call.cell) :
              Bucket(call.parent, X) \cap FloodEntities(out.flood) = {}

\* The non-empty buckets of the index the flood has not put in its result.
FloodUnvisited == {h \in DOMAIN map : map[h] # {} /\ h \notin DOMAIN result}

\* The variant of the loop of neighbors_flood.
FloodVariant == Cardinality(FloodUnvisited) + Len(stack)

\* C9: neighbors_flood terminates.  Every iteration of its loop lowers the
\* variant, a natural number: the number of non-empty buckets not yet in the
\* result plus the length of the work stack; and the loop is never stopped
\* short of an empty stack (the work stack stays within MaxStack, so the next
\* iteration or the return can always be taken).  So the stack empties after
\* finitely many iterations and a result is returned.
C9_FloodTerminates ==
    [][/\ call'.op = "neighbors_flood" => Len(stack') <= MaxStack
       /\ call.op = "neighbors_flood"
             => \/ call'.op = "flood_done" /\ stack = <<>> /\ out'.flood = result
                \/ /\ call' = call
                   /\ FloodVariant' < FloodVariant]_vars

\* A flood that went round a cycle of occupied cells and returned.
C9_Witness ==
    /\ call.op = "flood_done"
    /\ Len(expanded) >= 3
    /\ Cardinality(DOMAIN out.flood) >= 2

\* C10: with a collision-free hash, neighbors_flattened never yields the
\* same entity twice.
C10_FlattenedNoDuplicates ==
    (CollisionFree /\ call.op = "neighbors_flattened")
        => \A i, j \in 1..Len(out.flattened) : out.flattened[i] = out.flattened[j] => i = j

\* C11: an entity that was despawned is removed from the index: it appears in
\* no bucket, has no reverse entry, and so is returned neither by get nor by
\* the neighbor queries.
C11_DespawnedNotIndexed ==
    \A e \in despawned :
        /\ \A h \in DOMAIN map : e \notin map[h]
        /\ e \notin DOMAIN reverse_map
        /\ \A k \in 1..Len(out.neighbors) : e \notin out.neighbors[k][3]
        /\ \A k \in 1..Len(out.flattened) : out.flattened[k] # e
        /\ e \notin FloodEntities(out.flood)

\* C12: for every index state, entity e and digest d, insert(e, d) applied
\* twice leaves the forward and the reverse map as insert(e, d) applied once
\* leaves them.  (The index changes in idle states only.)
C12_UpsertIdempotent ==
    call = Idle =>
        \A idx \in IndexStates : \A e \in Entities, d \in AllDigests :
            insert(insert(idx, e, d), e, d) = insert(idx, e, d)

\* A state where insert(e, d) meets an index that already holds e in the
\* bucket of d, next to another bucket.
C12_Witness ==
    /\ call = Idle
    /\ Cardinality(DOMAIN map) >= 2
    /\ \E e \in Entities : spatial_hash[e] # None /\ e \in Members(map, spatial_hash[e][1])
                           /\ insert(Index, e, spatial_hash[e][1]) = Index

\* C13: neighbors(0, F, c) yields at most one entry; it yields one exactly
\* when the bucket of (F, c) is non-empty, and that entry is the origin cell c
\* with its digest and its bucket.
C13_RadiusZero ==
    (call.op = "neighbors" /\ call.cell_radius = 0) =>
        /\ Len(out.neighbors) <= 1
        /\ (Len(out.neighbors) = 1) <=> (Bucket(call.parent, call.cell) # {})
        /\ \A k \in 1..Len(out.neighbors) :
              out.neighbors[k] = <<SpatialHash_new(call.parent, call.cell), call.cell,
                                   Bucket(call.parent, call.cell)>>

\* neighbors(0, F, c) has yielded the origin cell.
C13_Witness ==
    /\ call.op = "neighbors"
    /\ call.cell_radius = 0
    /\ Len(out.neighbors) = 1
    /\ out.neighbors[1][2] = call.cell


\* C14: iter yields only non-empty buckets, and get of a digest that is the
\* digest of no entity's (frame, cell) yields None or an empty set.
C14_OnlyOccupiedBuckets ==
    /\ \A it \in iter(map) : it[2] # {}
    /\ \A d \in AllDigests :
          (\A f \in Frames, c \in Cells : SpatialHash_new(f, c) = d => Occupants(f, c) = {})
             => get(map, d) \in {None, Some({})}

\* C15: an update pass of the plugin instantiated with the filter F writes the
\* SpatialHashMap of F: the entities matching F it has hashed are in that
\* index afterwards, and the index of the default filter is left unchanged.
C15_FilterOwnIndex ==
    [][FilteredUpdatePass =>
          /\ map' = map
          /\ reverse_map' = reverse_map
          /\ \A e \in Matching :
                spatial_hash'[e] # spatial_hash[e]
                   => e \in Members(filtered'.map, spatial_hash'[e][1])]_vars

\* C16: generate on a PartialSpatialHash built from a frame returns the digest
\* of SpatialHash::new(frame, cell), whichever cells were completed from the
\* same partial hash before, and leaves the partial hash as new built it; the
\* digests neighbors yields from its one partial hash are those of
\* SpatialHash::new; entities with equal (frame, cell) carry equal digests.
C16_PartialReuse ==
    /\ call.op = "partial" =>
          /\ call.hasher = PartialSpatialHash_new(call.parent)
          /\ call.cell # None => call.hash = Some(SpatialHash_new(call.parent, call.cell[1]))
    /\ call.op = "neighbors" =>
          \A k \in 1..Len(out.neighbors) :
             out.neighbors[k][1] = SpatialHash_new(call.parent, out.neighbors[k][2])
    /\ \A a \in Entities, b \in Entities :
          (/\ spatial_hash[a] # None /\ spatial_hash[b] # None
           /\ parent[a] = parent[b] /\ gridcell[a] = gridcell[b])
             => spatial_hash[a] = spatial_hash[b]

\* A partial hash that other cells had been completed from before has been
\* completed with a cell, while two entities carry the digest of one
\* (frame, cell).
C16_Witness ==
    /\ call.op = "partial"
    /\ call.reused
    /\ call.hash = Some(SpatialHash_new(call.parent, call.cell[1]))
    /\ \E a \in Entities, b \in Entities :
          /\ a # b /\ spatial_hash[a] # None
          /\ parent[a] = parent[b] /\ gridcell[a] = gridcell[b]
          /\ spatial_hash[a] = spatial_hash[b]

\* How many times neighbors_flood has popped the cell c and scanned around it.
Expansions(c) == Cardinality({i \in 1..Len(expanded) : expanded[i] = c})

\* C17 as stated: during neighbors_flood no cell is expanded more than once.
C17_NoCellExpandedTwice ==
    \A i, j \in 1..Len(expanded) : expanded[i] = expanded[j] => i = j

\* C17, amended: during neighbors_flood no cell other than the origin cell is
\* expanded more than once and the origin cell is expanded at most twice; with
\* a collision-free hash the origin cell has been expanded twice when the
\* flood returns exactly if its bucket is non-empty.
C17_ExpandedOnceButOrigin ==
    call.op \in {"neighbors_flood", "flood_done"} =>
        /\ \A i \in 1..Len(expanded) :
              expanded[i] # call.cell => Expansions(expanded[i]) = 1
        /\ Expansions(call.cell) <= 2
        /\ (call.op = "flood_done" /\ CollisionFree)
              => (Expansions(call.cell) = 2 <=> Bucket(call.parent, call.cell) # {})

\* A flood has returned after expanding its non-empty origin cell twice and
\* another cell once.
C17_Witness ==
    /\ call.op = "flood_done"
    /\ Expansions(call.cell) = 2
    /\ \E i \in 1..Len(expanded) : expanded[i] # call.cell

\* C18: for every radius, frame F and cell c, neighbors includes the origin
\* cell c whenever the bucket of (F, c) is non-empty, and every entry it
\* yields is a non-empty set equal to get of the digest yielded with it.
C18_OriginAndNonEmpty ==
    /\ call.op = "neighbors" =>
          /\ Bucket(call.parent, call.cell) # {}
                => \E k \in 1..Len(out.neighbors) :
                      out.neighbors[k] = <<SpatialHash_new(call.parent, call.cell), call.cell,
                                           Bucket(call.parent, call.cell)>>
          /\ \A k \in 1..Len(out.neighbors) :
                /\ out.neighbors[k][3] # {}
                /\ get(map, out.neighbors[k][1]) = Some(out.neighbors[k][3])
    \* For every radius a u8 holds, the scan has an index whose offset is the
    \* origin (a fact of arithmetic, the same in every state: it is evaluated
    \* before the first report).
    /\ reports = 0 =>
          \A r \in 0..U8Max : r < Pow3(1 + 2 * r) /\ neighbor_offset(r, r) = <<0, 0, 0>>

\* neighbors with a radius above 0 has yielded the non-empty origin cell and
\* another cell.
C18_Witness ==
    /\ call.op = "neighbors"
    /\ call.cell_radius > 0
    /\ Bucket(call.parent, call.cell) # {}
    /\ \E j \in 1..Len(out.neighbors), k \in 1..Len(out.neighbors) :
          out.neighbors[j][2] = call.cell /\ out.neighbors[k][2] # call.cell

\* What an update pass over the two changed entities e1, e2, taken in this
\* order and reported at (f1, c1) and (f2, c2), leaves: the index and the
\* deferred component writes.
PassOver(e1, f1, c1, e2, f2, c2) ==
    update_spatial_hash([idx |-> Index, commands |-> <<>>],
                        <<<<e1, f1, c1, spatial_hash[e1]>>, <<e2, f2, c2, spatial_hash[e2]>>>>)

\* C19: inserts for distinct entities commute: for e1 # e2 and any digests
\* d1, d2, insert(e1, d1) followed by insert(e2, d2) leaves the index as
\* insert(e2, d2) followed by insert(e1, d1) leaves it, from every index
\* state, and an update pass over two distinct entities leaves the same index
\* and component writes in either order.  (The index changes in idle states
\* only.)
C19_DistinctUpsertsCommute ==
    call = Idle =>
        \A e1 \in Entities, e2 \in Entities :
            e1 # e2 =>
                /\ \A idx \in IndexStates : \A d1 \in AllDigests, d2 \in AllDigests :
                      insert(insert(idx, e1, d1), e2, d2) = insert(insert(idx, e2, d2), e1, d1)
                /\ \A f1 \in Frames, f2 \in Frames : \A c1 \in Cells, c2 \in Cells :
                      PassOver(e1, f1, c1, e2, f2, c2) = PassOver(e2, f2, c2, e1, f1, c1)

\* One update pass has inserted two entities, into one bucket, in an index
\* that holds another bucket.
C19_Witness ==
    /\ call = Idle
    /\ reports = 3
    /\ Cardinality(DOMAIN map) = 2
    /\ \E h \in DOMAIN map : map[h] = {1, 2}

\* C20: the equality pre-check of the update pass is safe: between passes,
\* with the deferred component writes applied, the SpatialHash component of
\* every entity that has one is the hash of its (parent, cell) and the entity
\* is in get(component); so an entity the next pass skips, its component
\* being the newly computed hash, is already a member of that bucket.
C20_PreCheckSafe ==
    \A e \in Entities :
        spatial_hash[e] # None =>
            /\ parent[e] # None /\ gridcell[e] # None
            /\ spatial_hash[e] = Some(SpatialHash_new(parent[e][1], gridcell[e][1]))
            /\ get(map, spatial_hash[e][1]) # None
            /\ e \in get(map, spatial_hash[e][1])[1]

\* An entity has been reported twice with the same hash: the second pass
\* skipped it, and it is in the one bucket of the index.
C20_Witness ==
    /\ call = Idle
    /\ reports = 2
    /\ despawned = {}
    /\ Cardinality({e \in Entities : spatial_hash[e] # None}) = 1
    /\ Cardinality(DOMAIN map) = 1
    /\ \E e \in Entities : spatial_hash[e] # None /\ e \in Members(map, spatial_hash[e][1])

====
